---- MODULE Spec2Model ----
(***************************************************************************)
(* CTI (Custom Tiled Image) container: byte codecs, reversible colour      *)
(* transform, tile geometry, container I/O, the parallel encoder pipeline  *)
(* and the sequential decoder pipeline of src/src/cti.rs.                  *)
(***************************************************************************)
EXTENDS Integers, Sequences, FiniteSets, TLC

VARIABLES
    img,          \* TiffImage handed to encode_to_cti
    cfg,          \* CTIConfig of the encoder
    pc,           \* position of encode_to_cti
    file,         \* bytes of the output file
    fpos,         \* write cursor of the BufWriter
    task,         \* per-tile state of the parallel compression tasks
    results,      \* CompTile results of tasks that have finished, by tile index
    finish_order, \* order in which the parallel tasks finished
    comp_tiles,   \* Vec<CompTile> collected from the parallel map
    indices,      \* Vec<TileIndex> built by the write loop
    cursor,       \* results payload offset of the write loop
    widx,         \* loop counter of the write loop
    dec,          \* state of CTIDecoder::decode
    px,           \* state of the pure-function harness (codecs, RCT)
    wlog          \* writes issued on the output so far: offset and length

vars == <<img, cfg, pc, file, fpos, task, results, finish_order, comp_tiles,
          indices, cursor, widx, dec, px, wlog>>

\* ====== Layout & constants ======
CTI_MAGIC == <<67, 84, 73, 49>>
CTI_HEADER_SIZE == 64
TILE_INDEX_ONDISK_SIZE == 20
TAG_ESCAPE_FF == 0
TAG_RLE == 1
TAG_LZ77 == 2
WINDOW == 4096
MIN_MATCH == 3

\* CompressionType discriminants
CompNone == 0
CompRLE == 1
CompLZ77 == 2
CompDelta == 3
CompPredictive == 4
CompZstd == 10
CompLz4 == 11

\* ====== Results (anyhow::Result) ======
Ok(v) == [ok |-> TRUE, val |-> v, err |-> ""]
Err(e) == [ok |-> FALSE, val |-> <<>>, err |-> e]

\* ====== Integer helpers ======
Min(a, b) == IF a < b THEN a ELSE b

RECURSIVE Pow2(_)
Pow2(n) == IF n = 0 THEN 1 ELSE 2 * Pow2(n - 1)

Clamp(v, lo, hi) == IF v < lo THEN lo ELSE IF v > hi THEN hi ELSE v

\* u8 wrapping arithmetic
WrapSub8(a, b) == (a - b + 256) % 256
WrapAdd8(a, b) == (a + b) % 256

\* n copies of v (std::iter::repeat(val).take(count))
Repeat(v, n) == [k \in 1..n |-> v]

\* data[from..to) with 0-based offsets, as a sequence
Slice(s, from, to) == [k \in 1..(to - from) |-> s[from + k]]

\* Loops of the source are modelled by their body (a ...Step operator on the
\* loop's variables, the identity once the loop has ended) and an iterator
\* that applies the body n times, n being a bound on the iteration count.
\* The iterator halves n so that its evaluation nests only log(n) deep; the
\* first half is evaluated before the second half starts (Evaluated).
Evaluated(v) == v = v

\* ===== RLE =====
\* the inner `while` of rle_compress: length of the run of `val` at 0-based
\* position i, capped at 255 and at the end of the data
RunLen(data, i, val) ==
    LET cap == Min(255, Len(data) - i)
    IN CHOOSE cnt \in 1..cap :
          /\ cnt = cap \/ data[i + cnt + 1] # val
          /\ \A m \in 1..(cnt - 1) : data[i + m + 1] = val

\* variant: every byte written as it is, 0xFF without its escape tag
UnescapedLiteral(b) == <<b>>

\* the literal encoding of one byte: 0xFF is escaped
EscapedLiteral(b) == IF b = 255 THEN <<255, TAG_ESCAPE_FF>> ELSE <<b>>

RECURSIVE Literals(_, _)
Literals(val, cnt) ==
    IF cnt = 0 THEN <<>> ELSE EscapedLiteral(val) \o Literals(val, cnt - 1)

\* variant: runs of three are already written as run tuples
MinRunThree == MIN_MATCH

\* the run threshold of rle_compress
MinRun == 4

\* loop variables of a codec loop: position i, output so far, error text
LoopState(i, out, err) == [i |-> i, out |-> out, err |-> err]

RleCompressStep(data, s) ==
    IF s.i >= Len(data) THEN s
    ELSE LET val == data[s.i + 1]
             cnt == RunLen(data, s.i, val)
         IN IF cnt >= MinRun
            THEN LoopState(s.i + cnt, s.out \o <<255, TAG_RLE, cnt, val>>, "")
            ELSE LoopState(s.i + cnt, s.out \o Literals(val, cnt), "")

RECURSIVE RleCompressLoop(_, _, _)
RleCompressLoop(data, s, n) ==
    IF n = 0 THEN s
    ELSE IF n = 1 THEN RleCompressStep(data, s)
    ELSE LET left == RleCompressLoop(data, s, n \div 2)
         IN IF Evaluated(left) THEN RleCompressLoop(data, left, n - (n \div 2)) ELSE left

rle_compress(data) ==
    Ok(RleCompressLoop(data, LoopState(0, <<>>, ""), Len(data)).out)

RleDecompressStep(data, s) ==
    IF s.i >= Len(data) \/ s.err # "" THEN s
    ELSE LET b == data[s.i + 1] IN
         IF b # 255 THEN LoopState(s.i + 1, Append(s.out, b), "")
         ELSE IF ~(s.i + 1 < Len(data))
         THEN LoopState(s.i, s.out, "RLE: truncated after 0xFF")
         ELSE LET tag == data[s.i + 2] IN
              IF tag = TAG_ESCAPE_FF
              THEN LoopState(s.i + 2, Append(s.out, 255), "")
              ELSE IF tag = TAG_RLE
              THEN IF ~(s.i + 3 < Len(data))
                   THEN LoopState(s.i, s.out, "RLE: truncated run")
                   ELSE LoopState(s.i + 4,
                            s.out \o Repeat(data[s.i + 4], data[s.i + 3]), "")
              ELSE IF tag = TAG_LZ77
              THEN LoopState(s.i, s.out, "RLE stream contains LZ77 tag")
              ELSE LoopState(s.i, s.out, "RLE unknown tag")

RECURSIVE RleDecompressLoop(_, _, _)
RleDecompressLoop(data, s, n) ==
    IF n = 0 THEN s
    ELSE IF n = 1 THEN RleDecompressStep(data, s)
    ELSE LET left == RleDecompressLoop(data, s, n \div 2)
         IN IF Evaluated(left) THEN RleDecompressLoop(data, left, n - (n \div 2)) ELSE left

\* variant: the output so far is returned even after a failed check
LoopResultIgnoringErr(s) == Ok(s.out)

LoopResult(s) == IF s.err # "" THEN Err(s.err) ELSE Ok(s.out)

rle_decompress(data) ==
    LoopResult(RleDecompressLoop(data, LoopState(0, <<>>, ""), Len(data)))

\* ===== Delta/predictive =====
delta_forward(data) ==
    [k \in 1..Len(data) |-> IF k = 1 THEN data[1] ELSE WrapSub8(data[k], data[k - 1])]

\* body of `for i in 1..data.len()`: out's last byte is prev
DeltaInverseStep(data, out) ==
    IF Len(out) >= Len(data) THEN out
    ELSE Append(out, WrapAdd8(out[Len(out)], data[Len(out) + 1]))

RECURSIVE DeltaInverseLoop(_, _, _)
DeltaInverseLoop(data, out, n) ==
    IF n = 0 THEN out
    ELSE IF n = 1 THEN DeltaInverseStep(data, out)
    ELSE LET left == DeltaInverseLoop(data, out, n \div 2)
         IN IF Evaluated(left) THEN DeltaInverseLoop(data, left, n - (n \div 2)) ELSE left

delta_inverse(data) ==
    IF Len(data) = 0 THEN <<>>
    ELSE DeltaInverseLoop(data, <<data[1]>>, Len(data) - 1)

predictive_forward(data) ==
    IF Len(data) < 3 THEN data
    ELSE [k \in 1..Len(data) |->
            IF k <= 2 THEN data[k]
            ELSE LET p == WrapAdd8(data[k - 1], WrapSub8(data[k - 1], data[k - 2]))
                 IN WrapSub8(data[k], p)]

\* body of `for i in 2..data.len()`: a0, a1 are the last two bytes of out
PredictiveInverseStep(data, out) ==
    IF Len(out) >= Len(data) THEN out
    ELSE LET a0 == out[Len(out) - 1]
             a1 == out[Len(out)]
             p == WrapAdd8(a1, WrapSub8(a1, a0))
         IN Append(out, WrapAdd8(p, data[Len(out) + 1]))

RECURSIVE PredictiveInverseLoop(_, _, _)
PredictiveInverseLoop(data, out, n) ==
    IF n = 0 THEN out
    ELSE IF n = 1 THEN PredictiveInverseStep(data, out)
    ELSE LET left == PredictiveInverseLoop(data, out, n \div 2)
         IN IF Evaluated(left) THEN PredictiveInverseLoop(data, left, n - (n \div 2)) ELSE left

predictive_inverse(data) ==
    IF Len(data) < 3 THEN data
    ELSE PredictiveInverseLoop(data, <<data[1], data[2]>>, Len(data) - 2)

\* ===== LZ77 (demo) =====
\* the inner `while` of lz77_compress: match length of window position j
\* against position i (both 0-based); j + l < i keeps the match off position i
MatchLen(data, i, j) ==
    LET cap == Min(255, Min(Len(data) - i, i - j))
    IN CHOOSE l \in 0..cap :
          /\ l = cap \/ data[j + l + 1] # data[i + l + 1]
          /\ \A m \in 0..(l - 1) : data[j + m + 1] = data[i + m + 1]

\* variant: a later window position with an equally long match replaces the
\* best one (`l >= best_len`)
BestMatchStepLastWins(data, i, b) ==
    IF b.j >= i THEN b
    ELSE LET l == MatchLen(data, i, b.j) IN
         IF l >= MIN_MATCH /\ l >= b.best_len
         THEN [j |-> IF l = 255 THEN i ELSE b.j + 1, best_len |-> l,
               best_dist |-> i - b.j]
         ELSE [b EXCEPT !.j = b.j + 1]

\* body of `for j in start..i`; the break at best_len = 255 ends the scan
BestMatchStep(data, i, b) ==
    IF b.j >= i THEN b
    ELSE LET l == MatchLen(data, i, b.j) IN
         IF l >= MIN_MATCH /\ l > b.best_len
         THEN [j |-> IF l = 255 THEN i ELSE b.j + 1, best_len |-> l,
               best_dist |-> i - b.j]
         ELSE [b EXCEPT !.j = b.j + 1]

RECURSIVE BestMatchLoop(_, _, _, _)
BestMatchLoop(data, i, b, n) ==
    IF n = 0 THEN b
    ELSE IF n = 1 THEN BestMatchStep(data, i, b)
    ELSE LET left == BestMatchLoop(data, i, b, n \div 2)
         IN IF Evaluated(left) THEN BestMatchLoop(data, i, left, n - (n \div 2)) ELSE left

BestMatch(data, i) ==
    LET start == IF i > WINDOW THEN i - WINDOW ELSE 0
    IN BestMatchLoop(data, i, [j |-> start, best_len |-> 0, best_dist |-> 0],
                     i - start)

\* the five bytes of a back-reference
BackrefToken(best_dist, best_len) ==
    <<255, TAG_LZ77, (best_dist \div 256) % 256, best_dist % 256, best_len % 256>>

Lz77CompressStep(data, s) ==
    IF s.i >= Len(data) THEN s
    ELSE LET best == BestMatch(data, s.i)
         IN IF best.best_len >= MIN_MATCH
            THEN LoopState(s.i + best.best_len,
                           s.out \o BackrefToken(best.best_dist, best.best_len), "")
            ELSE LoopState(s.i + 1, s.out \o EscapedLiteral(data[s.i + 1]), "")

RECURSIVE Lz77CompressLoop(_, _, _)
Lz77CompressLoop(data, s, n) ==
    IF n = 0 THEN s
    ELSE IF n = 1 THEN Lz77CompressStep(data, s)
    ELSE LET left == Lz77CompressLoop(data, s, n \div 2)
         IN IF Evaluated(left) THEN Lz77CompressLoop(data, left, n - (n \div 2)) ELSE left

lz77_compress(data) ==
    Ok(Lz77CompressLoop(data, LoopState(0, <<>>, ""), Len(data)).out)

\* the byte-by-byte copy of a back-reference (it may read bytes it wrote)
RECURSIVE CopyBackref(_, _, _)
CopyBackref(out, start, n) ==
    IF n = 0 THEN out
    ELSE IF n = 1 THEN Append(out, out[start + 1])
    ELSE LET h == n \div 2
             left == CopyBackref(out, start, h)
         IN IF Evaluated(left) THEN CopyBackref(left, start + h, n - h) ELSE left

\* variant: the LZ77 decoder reads its stream with the tag match of the RLE
\* decoder, so tag 0x02 is refused
Lz77StepWithoutBackref(data, s) == RleDecompressStep(data, s)

Lz77DecompressStep(data, s) ==
    IF s.i >= Len(data) \/ s.err # "" THEN s
    ELSE LET b == data[s.i + 1] IN
         IF b # 255 THEN LoopState(s.i + 1, Append(s.out, b), "")
         ELSE IF ~(s.i + 1 < Len(data))
         THEN LoopState(s.i, s.out, "LZ77: truncated after 0xFF")
         ELSE LET tag == data[s.i + 2] IN
              IF tag = TAG_ESCAPE_FF
              THEN LoopState(s.i + 2, Append(s.out, 255), "")
              ELSE IF tag = TAG_RLE
              THEN IF ~(s.i + 3 < Len(data))
                   THEN LoopState(s.i, s.out, "LZ77: RLE tuple truncated")
                   ELSE LoopState(s.i + 4,
                            s.out \o Repeat(data[s.i + 4], data[s.i + 3]), "")
              ELSE IF tag = TAG_LZ77
              THEN IF ~(s.i + 4 < Len(data))
                   THEN LoopState(s.i, s.out, "LZ77: backref truncated")
                   ELSE LET dist == data[s.i + 3] * 256 + data[s.i + 4]
                            len == data[s.i + 5]
                        IN IF ~(dist > 0)
                           THEN LoopState(s.i, s.out, "LZ77: distance zero")
                           ELSE IF ~(len >= 3)
                           THEN LoopState(s.i, s.out, "LZ77: len too small")
                           ELSE IF ~(dist <= Len(s.out))
                           THEN LoopState(s.i, s.out, "LZ77: distance beyond buffer")
                           ELSE LoopState(s.i + 5,
                                    CopyBackref(s.out, Len(s.out) - dist, len), "")
              ELSE LoopState(s.i, s.out, "LZ77: unknown tag")

RECURSIVE Lz77DecompressLoop(_, _, _)
Lz77DecompressLoop(data, s, n) ==
    IF n = 0 THEN s
    ELSE IF n = 1 THEN Lz77DecompressStep(data, s)
    ELSE LET left == Lz77DecompressLoop(data, s, n \div 2)
         IN IF Evaluated(left) THEN Lz77DecompressLoop(data, left, n - (n \div 2)) ELSE left

lz77_decompress(data) ==
    LoopResult(Lz77DecompressLoop(data, LoopState(0, <<>>, ""), Len(data)))

\* ===== External general-purpose compressors (library adapters) =====
\* zstd::bulk::compress: a single-segment frame holding one raw block
\* (magic, frame header descriptor, content size, block header, content);
\* content sizes of the model fit the one-byte content-size field.
ZSTD_MAGIC == <<40, 181, 47, 253>>

RECURSIVE LeBytes(_, _)
LeBytes(v, n) == IF n = 0 THEN <<>> ELSE <<v % 256>> \o LeBytes(v \div 256, n - 1)

RECURSIVE FromLe(_)
FromLe(bytes) ==
    IF Len(bytes) = 0 THEN 0 ELSE bytes[1] + 256 * FromLe(Tail(bytes))

ZstdCompress(data, level) ==
    Ok(ZSTD_MAGIC \o <<32, Len(data)>> \o LeBytes(Len(data) * 8 + 1, 3) \o data)

ZstdDecompress(comp, capacity) ==
    IF Len(comp) >= 9
       /\ Slice(comp, 0, 4) = ZSTD_MAGIC
       /\ comp[5] = 32
       /\ FromLe(Slice(comp, 6, 9)) = comp[6] * 8 + 1
       /\ Len(comp) = 9 + comp[6]
       /\ comp[6] <= capacity
    THEN Ok(Slice(comp, 9, Len(comp)))
    ELSE Err("zstd decompress failed")

\* lz4_flex::block::compress_prepend_size: u32 LE size, then one block of
\* literals (token, length extension bytes, literals).
RECURSIVE Lz4LenExt(_)
Lz4LenExt(n) == IF n >= 255 THEN <<255>> \o Lz4LenExt(n - 255) ELSE <<n>>

Lz4Compress(data) ==
    LET n == Len(data) IN
    LeBytes(n, 4) \o <<Min(n, 15) * 16>>
        \o (IF n >= 15 THEN Lz4LenExt(n - 15) ELSE <<>>) \o data

\* reads the extension bytes at 0-based position i; <<length, next position>>
RECURSIVE Lz4ReadExt(_, _, _)
Lz4ReadExt(comp, i, acc) ==
    IF i >= Len(comp) THEN <<-1, i>>
    ELSE IF comp[i + 1] = 255 THEN Lz4ReadExt(comp, i + 1, acc + 255)
    ELSE <<acc + comp[i + 1], i + 1>>

Lz4Decompress(comp) ==
    IF Len(comp) < 5 THEN Err("lz4: truncated")
    ELSE LET size == FromLe(Slice(comp, 0, 4))
             token == comp[5]
             lit == IF token \div 16 = 15 THEN Lz4ReadExt(comp, 5, 15)
                    ELSE <<token \div 16, 5>>
         IN IF token % 16 = 0 /\ lit[1] = size /\ lit[2] + lit[1] = Len(comp)
            THEN Ok(Slice(comp, lit[2], Len(comp)))
            ELSE Err("lz4: bad block")

\* ====== Compression / decompression dispatch ======
compress_tile(kind, data, zstd_level) ==
    CASE kind = CompNone -> Ok(data)
      [] kind = CompRLE -> rle_compress(data)
      [] kind = CompDelta -> rle_compress(delta_forward(data))
      [] kind = CompPredictive -> rle_compress(predictive_forward(data))
      [] kind = CompLZ77 -> lz77_compress(data)
      [] kind = CompZstd -> ZstdCompress(data, zstd_level)
      [] kind = CompLz4 -> Ok(Lz4Compress(data))

decompress_tile_with_size(kind, comp, original_size) ==
    CASE kind = 0 -> Ok(comp)
      [] kind = 1 -> rle_decompress(comp)
      [] kind = 2 -> lz77_decompress(comp)
      [] kind = 3 -> LET d == rle_decompress(comp)
                     IN IF d.ok THEN Ok(delta_inverse(d.val)) ELSE d
      [] kind = 4 -> LET d == rle_decompress(comp)
                     IN IF d.ok THEN Ok(predictive_inverse(d.val)) ELSE d
      [] kind = 10 -> ZstdDecompress(comp, original_size)
      [] kind = 11 -> Lz4Decompress(comp)
      [] OTHER -> Err("Unknown compression id")

\* ===== RCT 5/3-like (scalar) =====
\* arithmetic shift right by two of a signed value
Asr2(v) == (v - ((v + 1048576) % 4)) \div 4

\* sign extension of a stored w-bit pattern (p as i8 / as i16)
SignExtend(p, bits) == IF p >= Pow2(bits - 1) THEN p - Pow2(bits) ELSE p

\* the low w bits of a signed value (two's complement)
LowBits(v, bits) == (v + 16 * Pow2(bits)) % Pow2(bits)

\* forward transform of one pixel <<r, g, b>> with w-bit components
RctForwardPixel(p, bits) ==
    LET y == (p[1] + 2 * p[2] + p[3]) \div 4
        cb == p[3] - p[2]
        cr == p[1] - p[2]
    IN <<Clamp(y, 0, Pow2(bits) - 1), LowBits(cb, bits), LowBits(cr, bits)>>

RctInversePixel(p, bits) ==
    LET y == p[1]
        cb == SignExtend(p[2], bits)
        cr == SignExtend(p[3], bits)
        g == y - Asr2(cb + cr)
        r == cr + g
        b == cb + g
    IN <<Clamp(r, 0, Pow2(bits) - 1), Clamp(g, 0, Pow2(bits) - 1),
         Clamp(b, 0, Pow2(bits) - 1)>>

\* chunks_exact_mut(3): whole pixels are transformed, a trailing partial
\* chunk is left as it is
rct_forward_rgb8(buf) ==
    [k \in 1..Len(buf) |->
        LET c == (k - 1) \div 3
        IN IF 3 * c + 3 > Len(buf) THEN buf[k]
           ELSE RctForwardPixel(Slice(buf, 3 * c, 3 * c + 3), 8)[k - 3 * c]]

rct_inverse_rgb8(buf) ==
    [k \in 1..Len(buf) |->
        LET c == (k - 1) \div 3
        IN IF 3 * c + 3 > Len(buf) THEN buf[k]
           ELSE RctInversePixel(Slice(buf, 3 * c, 3 * c + 3), 8)[k - 3 * c]]

\* the three little-endian u16 components of the 6-byte chunk c
Pixel16(buf, c) ==
    [n \in 1..3 |-> FromLe(Slice(buf, 6 * c + 2 * (n - 1), 6 * c + 2 * n))]

\* byte m (0-based, 0..5) of the pixel <<a, b, c>> stored as three u16 LE
Pixel16Byte(p, m) == LeBytes(p[(m \div 2) + 1], 2)[(m % 2) + 1]

rct_forward_rgb16(buf) ==
    [k \in 1..Len(buf) |->
        LET c == (k - 1) \div 6
        IN IF 6 * c + 6 > Len(buf) THEN buf[k]
           ELSE Pixel16Byte(RctForwardPixel(Pixel16(buf, c), 16), k - 1 - 6 * c)]

rct_inverse_rgb16(buf) ==
    [k \in 1..Len(buf) |->
        LET c == (k - 1) \div 6
        IN IF 6 * c + 6 > Len(buf) THEN buf[k]
           ELSE Pixel16Byte(RctInversePixel(Pixel16(buf, c), 16), k - 1 - 6 * c)]

\* ===== CRC32 =====
\* crc32fast (IEEE 802.3, reflected). A u32 checksum is carried as the pair
\* <<high 16 bits, low 16 bits>> while it is computed and as its four
\* little-endian bytes once finalized.
RECURSIVE Xor(_, _)
Xor(a, b) ==
    IF a = 0 THEN b
    ELSE IF b = 0 THEN a
    ELSE (((a % 2) + (b % 2)) % 2) + 2 * Xor(a \div 2, b \div 2)

\* the reflected polynomial 0xEDB88320 as <<0xEDB8, 0x8320>>
CRC_POLY == <<60856, 33568>>

Xor32(a, b) == <<Xor(a[1], b[1]), Xor(a[2], b[2])>>

Shr32(c, n) == <<c[1] \div Pow2(n), (c[2] \div Pow2(n)) + (c[1] % Pow2(n)) * Pow2(16 - n)>>

RECURSIVE CrcTableEntry(_, _)
CrcTableEntry(c, k) ==
    IF k = 0 THEN c
    ELSE CrcTableEntry(IF c[2] % 2 = 1 THEN Xor32(CRC_POLY, Shr32(c, 1))
                       ELSE Shr32(c, 1), k - 1)

CrcTable == [n \in 0..255 |-> CrcTableEntry(<<0, n>>, 8)]

\* one byte of Hasher::update, bytes k..k+n-1 (1-based) of data
RECURSIVE CrcUpdate(_, _, _, _)
CrcUpdate(data, k, n, c) ==
    IF n = 0 THEN c
    ELSE IF n = 1 THEN Xor32(CrcTable[Xor(c[2] % 256, data[k])], Shr32(c, 8))
    ELSE LET h == n \div 2
             left == CrcUpdate(data, k, h, c)
         IN IF Evaluated(left) THEN CrcUpdate(data, k + h, n - h, left) ELSE left

crc32(data) ==
    LET c == Xor32(CrcUpdate(data, 1, Len(data), <<65535, 65535>>), <<65535, 65535>>)
    IN LeBytes(c[2], 2) \o LeBytes(c[1], 2)

\* ====== Rasters and configuration ======
\* Option<T>
None == [some |-> FALSE, v |-> <<>>]
\* Option<f32>::None
NoDpi == [some |-> FALSE, v |-> 0]
Some(x) == [some |-> TRUE, v |-> x]

SupportedColors == {"L8", "L16", "Rgb8", "Rgba8", "Rgb16"}

bytes_per_pixel(ct) ==
    CASE ct = "L8" -> Ok(1)
      [] ct = "L16" -> Ok(2)
      [] ct = "Rgb8" -> Ok(3)
      [] ct = "Rgba8" -> Ok(4)
      [] ct = "Rgb16" -> Ok(6)
      [] OTHER -> Err("Unsupported color type")

\* color_type_id of encode_to_cti; 0 stands for the bail on other kinds
ColorTypeId(ct) ==
    CASE ct = "L8" -> 1
      [] ct = "L16" -> 2
      [] ct = "Rgb8" -> 3
      [] ct = "Rgba8" -> 4
      [] ct = "Rgb16" -> 5
      [] OTHER -> 0

\* f32::to_le_bytes of a whole number 0 <= v < 2^24 (IEEE 754 binary32:
\* biased exponent in bits 23..30, fraction in bits 0..22), as four bytes
RECURSIVE Log2Floor(_)
Log2Floor(v) == IF v <= 1 THEN 0 ELSE 1 + Log2Floor(v \div 2)

F32LeBytes(v) ==
    IF v = 0 THEN <<0, 0, 0, 0>>
    ELSE LET e == Log2Floor(v)
             frac == (v - Pow2(e)) * Pow2(23 - e)
         IN LeBytes((127 + e) * Pow2(23) + frac, 4)

\* ====== Tile operations ======
\* variant: the partial tile at the edge is not counted
TilesAcrossFloor(extent, ts) == extent \div ts

TilesAcross(extent, ts) == (extent + ts - 1) \div ts

extract_tile(image, tx, ty, ts) ==
    LET bpp == bytes_per_pixel(image.color_type).val
        start_x == tx * ts
        start_y == ty * ts
        end_x == Min(start_x + ts, image.width)
        end_y == Min(start_y + ts, image.height)
        tile_w == end_x - start_x
        tile_h == end_y - start_y
        row_len == tile_w * bpp
    IN IF ~bytes_per_pixel(image.color_type).ok
       THEN [kind |-> "err", val |-> <<>>]
       ELSE IF tile_w < 0 \/ tile_h < 0
               \/ \E y \in start_y..(end_y - 1) :
                     (y * image.width + start_x) * bpp + row_len > Len(image.data)
       THEN [kind |-> "panic", val |-> <<>>]
       ELSE [kind |-> "ok",
             val |-> [k \in 1..(tile_h * row_len) |->
                        LET row == (k - 1) \div row_len
                            col == (k - 1) % row_len
                        IN image.data[((start_y + row) * image.width + start_x) * bpp
                                      + col + 1]]]

blit_tile(out, tile, w, h, ts, bpp, tx, ty) ==
    LET start_x == tx * ts
        start_y == ty * ts
        end_x == Min(start_x + ts, w)
        end_y == Min(start_y + ts, h)
        tile_w == end_x - start_x
        tile_h == end_y - start_y
        len == tile_w * bpp
    IN IF tile_w < 0 \/ tile_h < 0
          \/ \E row \in 0..(tile_h - 1) :
                \/ ((start_y + row) * w + start_x) * bpp + len > Len(out)
                \/ row * tile_w * bpp + len > Len(tile)
       THEN [kind |-> "panic", val |-> out]
       ELSE [kind |-> "ok",
             val |-> [k \in 1..Len(out) |->
                        LET px_ == (k - 1) \div bpp
                            y == px_ \div w
                            x == px_ % w
                        IN IF w > 0 /\ bpp > 0
                              /\ x >= start_x /\ x < end_x
                              /\ y >= start_y /\ y < end_y
                           THEN tile[(y - start_y) * len + (x - start_x) * bpp
                                     + ((k - 1) % bpp) + 1]
                           ELSE out[k]]]

\* ====== I/O helpers ======
\* a write of `bytes` at 0-based position pos; a gap left by a seek past
\* the end reads as zeros
WriteAt(f, pos, bytes) ==
    LET padded == IF Len(f) < pos THEN f \o Repeat(0, pos - Len(f)) ELSE f
    IN IF Len(bytes) = 0 THEN f
       ELSE SubSeq(padded, 1, pos) \o bytes
            \o SubSeq(padded, pos + Len(bytes) + 1, Len(padded))

CTIHeader_new(width, height, tile_size, tx, ty, color_type, compression, quality, flags) ==
    [magic |-> CTI_MAGIC, version |-> 1, flags |-> flags, width |-> width,
     height |-> height, tile_size |-> tile_size, tiles_x |-> tx,
     tiles_y |-> ty, color_type |-> color_type, compression |-> compression,
     quality |-> quality, reserved |-> Repeat(0, 33)]

write_header(h) ==
    h.magic \o LeBytes(h.version, 2) \o LeBytes(h.flags, 2)
        \o LeBytes(h.width, 4) \o LeBytes(h.height, 4) \o LeBytes(h.tile_size, 4)
        \o LeBytes(h.tiles_x, 4) \o LeBytes(h.tiles_y, 4)
        \o <<h.color_type, h.compression, h.quality>> \o h.reserved

\* the fields of a header read from the first 64 bytes of f
read_header(f) ==
    IF Len(f) < CTI_HEADER_SIZE THEN Err("failed to fill whole buffer")
    ELSE Ok([magic |-> Slice(f, 0, 4),
             version |-> FromLe(Slice(f, 4, 6)),
             flags |-> FromLe(Slice(f, 6, 8)),
             width |-> FromLe(Slice(f, 8, 12)),
             height |-> FromLe(Slice(f, 12, 16)),
             tile_size |-> FromLe(Slice(f, 16, 20)),
             tiles_x |-> FromLe(Slice(f, 20, 24)),
             tiles_y |-> FromLe(Slice(f, 24, 28)),
             color_type |-> f[29],
             compression |-> f[30],
             quality |-> f[31],
             reserved |-> Slice(f, 31, 64)])

\* a TileIndex keeps its crc32 as the four little-endian bytes of the u32
write_tile_index(t) ==
    LeBytes(t.offset, 8) \o LeBytes(t.compressed_size, 4)
        \o LeBytes(t.original_size, 4) \o t.crc32

RECURSIVE WriteIndices(_)
WriteIndices(ts) ==
    IF Len(ts) = 0 THEN <<>> ELSE write_tile_index(Head(ts)) \o WriteIndices(Tail(ts))

\* record k (0-based) of the index block that starts at byte 64 of f
ReadIndexAt(f, k) ==
    LET base == CTI_HEADER_SIZE + TILE_INDEX_ONDISK_SIZE * k
    IN [offset |-> FromLe(Slice(f, base, base + 8)),
        compressed_size |-> FromLe(Slice(f, base + 8, base + 12)),
        original_size |-> FromLe(Slice(f, base + 12, base + 16)),
        crc32 |-> Slice(f, base + 16, base + 20)]

read_indices(f, n) ==
    IF CTI_HEADER_SIZE + TILE_INDEX_ONDISK_SIZE * n > Len(f)
    THEN Err("failed to fill whole buffer")
    ELSE Ok([k \in 1..n |-> ReadIndexAt(f, k - 1)])

\* ===== Sections (TOC at end) =====
SEC_TYPE_RES == 542327122
SEC_TYPE_ICC == 541279049
SECTION_REC_SIZE == 20

RECURSIVE SectionOffsets(_, _)
SectionOffsets(sections, off) ==
    IF Len(sections) = 0 THEN <<>>
    ELSE <<[ty |-> Head(sections)[1], offset |-> off,
            size |-> Len(Head(sections)[2])]>>
         \o SectionOffsets(Tail(sections), off + Len(Head(sections)[2]))

RECURSIVE SectionPayloads(_)
SectionPayloads(sections) ==
    IF Len(sections) = 0 THEN <<>>
    ELSE Head(sections)[2] \o SectionPayloads(Tail(sections))

RECURSIVE SectionToc(_)
SectionToc(descs) ==
    IF Len(descs) = 0 THEN <<>>
    ELSE LeBytes(Head(descs).ty, 4) \o LeBytes(Head(descs).offset, 8)
         \o LeBytes(Head(descs).size, 8) \o SectionToc(Tail(descs))

\* one write on the output: len bytes at offset off
WriteRec(off, len) == [off |-> off, len |-> len]

\* the writes of write_sections at position pos: the count, every payload
\* behind the skipped table, then the table records
SectionWrites(pos, sections) ==
    IF Len(sections) = 0 THEN <<WriteRec(pos, 4)>>
    ELSE LET count == Len(sections)
             toc_pos == pos + 4
             descs == SectionOffsets(sections, toc_pos + count * SECTION_REC_SIZE)
         IN <<WriteRec(pos, 4)>>
            \o [k \in 1..count |-> WriteRec(descs[k].offset, descs[k].size)]
            \o [k \in 1..count |->
                    WriteRec(toc_pos + (k - 1) * SECTION_REC_SIZE, SECTION_REC_SIZE)]

\* write_sections at cursor position pos of file f: <<file, position>>
write_sections(f, pos, sections) ==
    IF Len(sections) = 0 THEN <<WriteAt(f, pos, LeBytes(0, 4)), pos + 4>>
    ELSE LET count == Len(sections)
             f1 == WriteAt(f, pos, LeBytes(count, 4))
             toc_pos == pos + 4
             data_pos == toc_pos + count * SECTION_REC_SIZE
             descs == SectionOffsets(sections, data_pos)
             f2 == WriteAt(f1, data_pos, SectionPayloads(sections))
             end == data_pos + Len(SectionPayloads(sections))
             f3 == WriteAt(f2, toc_pos, SectionToc(descs))
         IN <<f3, end>>

\* variant: the ICC section is pushed before the RES section
BuildSectionsIccFirst(image) ==
    (IF image.icc.some THEN <<<<SEC_TYPE_ICC, image.icc.v>>>> ELSE <<>>)
    \o (IF image.xdpi.some /\ image.ydpi.some
        THEN <<<<SEC_TYPE_RES, F32LeBytes(image.xdpi.v) \o F32LeBytes(image.ydpi.v)>>>>
        ELSE <<>>)

\* the section list built by encode_to_cti
BuildSections(image) ==
    (IF image.xdpi.some /\ image.ydpi.some
     THEN <<<<SEC_TYPE_RES, F32LeBytes(image.xdpi.v) \o F32LeBytes(image.ydpi.v)>>>>
     ELSE <<>>)
    \o (IF image.icc.some THEN <<<<SEC_TYPE_ICC, image.icc.v>>>> ELSE <<>>)

\* ====== Encoder: CTIEncoder::encode_to_cti ======
tiles_x == TilesAcross(img.width, cfg.tile_size)
tiles_y == TilesAcross(img.height, cfg.tile_size)
total_tiles == tiles_x * tiles_y
index_offset == CTI_HEADER_SIZE

\* variant: the payloads start right behind the header, no index area is left
DataOffsetWithoutIndex == index_offset

\* the payloads start behind the skipped index area
data_offset == index_offset + total_tiles * TILE_INDEX_ONDISK_SIZE

\* flags of the header: bit 0 follows the configuration alone
EncFlags == IF cfg.color_transform THEN 1 ELSE 0

EncHeader ==
    CTIHeader_new(img.width, img.height, cfg.tile_size, tiles_x, tiles_y,
                  ColorTypeId(img.color_type), cfg.compression,
                  cfg.quality_level, EncFlags)

use_rct == cfg.color_transform /\ img.color_type \in {"Rgb8", "Rgb16"}

\* 16-bit inputs are forced to Zstd for the tile payloads
use_kind ==
    IF img.color_type \in {"L16", "Rgb16"}
    THEN IF cfg.compression \in {CompNone, CompRLE, CompLZ77, CompDelta, CompPredictive}
         THEN CompZstd
         ELSE cfg.compression
    ELSE cfg.compression

\* the uncompressed bytes of tile idx as the task sees them before compressing
TileBytes(idx) ==
    LET tx == idx % tiles_x
        ty == idx \div tiles_x
        tile == extract_tile(img, tx, ty, cfg.tile_size).val
    IN IF use_rct
       THEN IF img.color_type = "Rgb8" THEN rct_forward_rgb8(tile)
            ELSE rct_forward_rgb16(tile)
       ELSE tile

\* the closure of the parallel map: one CompTile
CompressTask(idx) ==
    LET tile == TileBytes(idx)
        comp == compress_tile(use_kind, tile, cfg.zstd_level)
    IN [comp |-> comp.val, orig_len |-> Len(tile), crc |-> crc32(tile)]

NoTile == [comp |-> <<>>, orig_len |-> 0, crc |-> <<>>]

\* variant: the vector holds the results in the order the tasks finished
CollectByFinishOrder(res, order) == [k \in 1..Len(order) |-> res[order[k] + 1]]

\* collect::<Result<Vec<_>>>() of an indexed parallel iterator: the vector
\* holds the result of tile idx at position idx, whatever the finish order
Collect(res, order) == res

DecIdle ==
    [pc |-> "idle", hdr |-> <<>>, indices |-> <<>>, bpp |-> 0, out |-> <<>>,
     i |-> 0, tile_bytes |-> <<>>, res |-> "none", err |-> "", err_tile |-> -1]

PxIdle == [op |-> "idle", kind |-> 0, input |-> <<>>, mid |-> <<>>,
           out |-> Err(""), stage |-> "idle"]

\* File::create, colour type check, write_header
EncWriteHeader ==
    /\ pc = "start"
    /\ IF ColorTypeId(img.color_type) = 0
       THEN /\ pc' = "failed"
            /\ UNCHANGED <<file, fpos, wlog>>
       ELSE /\ file' = WriteAt(file, 0, write_header(EncHeader))
            /\ fpos' = CTI_HEADER_SIZE
            /\ wlog' = Append(wlog, WriteRec(0, CTI_HEADER_SIZE))
            /\ pc' = "seek"
    /\ UNCHANGED <<img, cfg, task, results, finish_order, comp_tiles, indices,
                   cursor, widx, dec, px>>

\* the index block is skipped: seek to data_offset, then the parallel map starts
EncSeekData ==
    /\ pc = "seek"
    /\ fpos' = data_offset
    /\ task' = [k \in 1..total_tiles |-> "pending"]
    /\ results' = [k \in 1..total_tiles |-> NoTile]
    /\ pc' = "parallel"
    /\ UNCHANGED <<img, cfg, file, finish_order, comp_tiles, indices, cursor,
                   widx, dec, px, wlog>>

\* a worker picks up tile idx
TaskStart(idx) ==
    /\ pc = "parallel"
    /\ task[idx + 1] = "pending"
    /\ task' = [task EXCEPT ![idx + 1] = "running"]
    /\ UNCHANGED <<img, cfg, pc, file, fpos, results, finish_order, comp_tiles,
                   indices, cursor, widx, dec, px, wlog>>

\* the worker returns the CompTile of tile idx
TaskFinish(idx) ==
    /\ pc = "parallel"
    /\ task[idx + 1] = "running"
    /\ task' = [task EXCEPT ![idx + 1] = "done"]
    /\ results' = [results EXCEPT ![idx + 1] = CompressTask(idx)]
    /\ finish_order' = Append(finish_order, idx)
    /\ UNCHANGED <<img, cfg, pc, file, fpos, comp_tiles, indices, cursor, widx,
                   dec, px, wlog>>

\* zstd::bulk::compress is the one fallible call of compress_tile: the task
\* of tile idx returns Err and leaves no CompTile
TaskFail(idx) ==
    /\ pc = "parallel"
    /\ task[idx + 1] = "running"
    /\ use_kind = CompZstd
    /\ task' = [task EXCEPT ![idx + 1] = "failed"]
    /\ UNCHANGED <<img, cfg, pc, file, fpos, results, finish_order, comp_tiles,
                   indices, cursor, widx, dec, px, wlog>>

\* variant: collect returns as soon as one task has returned
SomeTaskReturned(t) == \E k \in 1..Len(t) : t[k] = "done"

\* collect returns once the parallel iterator has a result from every task
AllTasksReturned(t) == \A k \in 1..Len(t) : t[k] = "done"

TaskFailed(t) == \E k \in 1..Len(t) : t[k] = "failed"

\* variant: the Err of the collected Result is dropped
AfterCollectIgnoringErr(t) == "write"

\* `.collect::<Result<Vec<_>>>()?`: an Err of any task leaves encode_to_cti
AfterCollect(t) == IF TaskFailed(t) THEN "failed" ELSE "write"

\* the parallel map is over: every task has returned Ok and the results are
\* collected for the write loop, or a task has returned Err, no task is still
\* running, and encode_to_cti returns that Err
EncCollect ==
    /\ pc = "parallel"
    /\ \/ AllTasksReturned(task)
       \/ TaskFailed(task) /\ \A k \in 1..Len(task) : task[k] # "running"
    /\ pc' = AfterCollect(task)
    /\ IF AfterCollect(task) = "write"
       THEN /\ comp_tiles' = Collect(results, finish_order)
            /\ task' = <<>>
            /\ results' = <<>>
            /\ indices' = <<>>
            /\ cursor' = data_offset
            /\ widx' = 0
       ELSE UNCHANGED <<comp_tiles, task, results, indices, cursor, widx>>
    /\ UNCHANGED <<img, cfg, file, fpos, finish_order, dec, px, wlog>>

\* the writes of the index block: one write_tile_index per record
IndexWrites(n) ==
    [k \in 1..n |-> WriteRec(index_offset + (k - 1) * TILE_INDEX_ONDISK_SIZE,
                             TILE_INDEX_ONDISK_SIZE)]

\* the payload the write loop emits in iteration idx
PayloadOf(tiles, idx) == tiles[idx + 1]

\* variant: every record carries the offset of the payload area
IndexRecordAtDataOffset(ct, off) ==
    [offset |-> data_offset, compressed_size |-> Len(ct.comp),
     original_size |-> ct.orig_len, crc32 |-> ct.crc]

\* the TileIndex pushed in iteration idx
IndexRecord(ct, off) ==
    [offset |-> off, compressed_size |-> Len(ct.comp),
     original_size |-> ct.orig_len, crc32 |-> ct.crc]

\* one iteration of `for idx in 0..total_tiles`
EncWriteTile ==
    /\ pc = "write"
    /\ widx < total_tiles
    /\ LET ct == PayloadOf(comp_tiles, widx) IN
        /\ file' = WriteAt(file, fpos, ct.comp)
        /\ fpos' = fpos + Len(ct.comp)
        /\ indices' = Append(indices, IndexRecord(ct, cursor))
        /\ cursor' = cursor + Len(ct.comp)
        /\ wlog' = Append(wlog, WriteRec(fpos, Len(ct.comp)))
    /\ widx' = widx + 1
    /\ UNCHANGED <<img, cfg, pc, task, results, finish_order, comp_tiles, dec, px>>

\* seek back to the index area and write the index block
EncWriteIndex ==
    /\ pc = "write"
    /\ widx = total_tiles
    /\ file' = WriteAt(file, index_offset, WriteIndices(indices))
    /\ fpos' = index_offset + Len(WriteIndices(indices))
    /\ wlog' = wlog \o IndexWrites(Len(indices))
    /\ pc' = "sections"
    /\ UNCHANGED <<img, cfg, task, results, finish_order, comp_tiles, indices,
                   cursor, widx, dec, px>>

\* seek past the last payload, write the section table, flush, return Ok
EncWriteSections ==
    /\ pc = "sections"
    /\ LET r == write_sections(file, cursor, BuildSections(img)) IN
        /\ file' = r[1]
        /\ fpos' = r[2]
    /\ wlog' = wlog \o SectionWrites(cursor, BuildSections(img))
    /\ pc' = "done"
    /\ UNCHANGED <<img, cfg, task, results, finish_order, comp_tiles, indices,
                   cursor, widx, dec, px>>

\* ====== Decoder: CTIDecoder::decode ======
\* decode returns Err(msg); err_tile is the tile index the message names
DecFail(msg, tile) ==
    [dec EXCEPT !.pc = "returned", !.res = "err", !.err = msg, !.err_tile = tile]

\* the header checks decode makes after read_header
HeaderAccepted(h) == h.magic = CTI_MAGIC

DecBpp(color_type) ==
    CASE color_type = 1 -> 1
      [] color_type = 2 -> 2
      [] color_type = 3 -> 3
      [] color_type = 4 -> 4
      [] color_type = 5 -> 6
      [] OTHER -> 0

DecUseRct(h) == (h.flags % 2) # 0 /\ h.color_type \in {3, 5}

\* read_header, magic check, read_indices, bpp, output allocation
DecodeOpen ==
    /\ pc = "done"
    /\ dec.pc \in {"idle", "tampered"}
    /\ LET h == read_header(file) IN
       IF ~h.ok THEN dec' = DecFail(h.err, -1)
       ELSE IF ~HeaderAccepted(h.val) THEN dec' = DecFail("Bad magic", -1)
       ELSE LET n == h.val.tiles_x * h.val.tiles_y
                ix == read_indices(file, n)
                bpp == DecBpp(h.val.color_type)
            IN IF ~ix.ok THEN dec' = DecFail(ix.err, -1)
               ELSE IF bpp = 0 THEN dec' = DecFail("Unsupported color type id", -1)
               ELSE dec' = [dec EXCEPT
                              !.hdr = h.val, !.indices = ix.val, !.bpp = bpp,
                              !.out = Repeat(0, h.val.width * h.val.height * bpp),
                              !.i = 0,
                              !.pc = IF n = 0 THEN "returned" ELSE "read",
                              !.res = IF n = 0 THEN "ok" ELSE "none"]
    /\ UNCHANGED <<img, cfg, pc, file, fpos, task, results, finish_order,
                   comp_tiles, indices, cursor, widx, px, wlog>>

\* seek to the payload of tile i, read it, decompress it
DecodeReadTile ==
    /\ dec.pc = "read"
    /\ LET t == dec.indices[dec.i + 1] IN
       IF t.offset + t.compressed_size > Len(file)
       THEN dec' = DecFail("failed to fill whole buffer", -1)
       ELSE LET comp == Slice(file, t.offset, t.offset + t.compressed_size)
                d == decompress_tile_with_size(dec.hdr.compression, comp,
                                               t.original_size)
            IN IF ~d.ok THEN dec' = DecFail(d.err, -1)
               ELSE dec' = [dec EXCEPT !.tile_bytes = d.val, !.pc = "verify"]
    /\ UNCHANGED <<img, cfg, pc, file, fpos, task, results, finish_order,
                   comp_tiles, indices, cursor, widx, px, wlog>>

\* variant: the decompressed tile goes on to the blit without the CRC check
DecodeWithoutCrcCheck ==
    /\ dec.pc = "verify"
    /\ dec' = [dec EXCEPT !.pc = "blit"]
    /\ UNCHANGED <<img, cfg, pc, file, fpos, task, results, finish_order,
                   comp_tiles, indices, cursor, widx, px, wlog>>

\* ensure!(crc32(&tile_bytes) == t.crc32, "CRC mismatch at tile {}", i)
DecodeVerifyCrc ==
    /\ dec.pc = "verify"
    /\ IF crc32(dec.tile_bytes) # dec.indices[dec.i + 1].crc32
       THEN dec' = DecFail("CRC mismatch at tile", dec.i)
       ELSE dec' = [dec EXCEPT !.pc = "blit"]
    /\ UNCHANGED <<img, cfg, pc, file, fpos, task, results, finish_order,
                   comp_tiles, indices, cursor, widx, px, wlog>>

\* inverse RCT, blit, next tile; after the last tile decode returns Ok
DecodeBlitTile ==
    /\ dec.pc = "blit"
    /\ LET h == dec.hdr
           tile == IF DecUseRct(h)
                   THEN IF h.color_type = 3 THEN rct_inverse_rgb8(dec.tile_bytes)
                        ELSE rct_inverse_rgb16(dec.tile_bytes)
                   ELSE dec.tile_bytes
           tx == dec.i % h.tiles_x
           ty == dec.i \div h.tiles_x
           b == blit_tile(dec.out, tile, h.width, h.height, h.tile_size,
                          dec.bpp, tx, ty)
       IN IF b.kind = "panic"
          THEN dec' = [dec EXCEPT !.pc = "returned", !.res = "panic",
                                  !.tile_bytes = tile]
          ELSE dec' = [dec EXCEPT
                         !.out = b.val, !.tile_bytes = tile, !.i = dec.i + 1,
                         !.pc = IF dec.i + 1 = Len(dec.indices)
                                THEN "returned" ELSE "read",
                         !.res = IF dec.i + 1 = Len(dec.indices)
                                 THEN "ok" ELSE "none"]
    /\ UNCHANGED <<img, cfg, pc, file, fpos, task, results, finish_order,
                   comp_tiles, indices, cursor, widx, px, wlog>>

\* ====== Inputs ======
MaxW == 3
MaxH == 2
MaxTile == 2
MaxTiles == 3
MaxSeed == 2

AllCompressions ==
    {CompNone, CompRLE, CompLZ77, CompDelta, CompPredictive, CompZstd, CompLz4}

Palette == <<7, 0, 200, 255, 130>>

\* byte k (0-based) of the raster generated from `seed`: seed 0 is a flat
\* raster of 0xFF, the others walk the palette with stride `seed`
RasterByte(seed, k) ==
    IF seed = 0 THEN 255 ELSE Palette[((k * seed) % Len(Palette)) + 1]

Bpp(ct) == IF ct = "La8" THEN 2 ELSE bytes_per_pixel(ct).val

MakeImage(ct, w, h, seed, xdpi, ydpi, icc) ==
    [width |-> w, height |-> h, color_type |-> ct,
     data |-> [k \in 1..(w * h * Bpp(ct)) |-> RasterByte(seed, k - 1)],
     xdpi |-> xdpi, ydpi |-> ydpi, icc |-> icc]

MakeConfig(ts, comp, rct) ==
    [tile_size |-> ts, compression |-> comp, quality_level |-> 100,
     color_transform |-> rct, zstd_level |-> 6]

\* the state at the call of encode_to_cti(image, out_path) with config c
EncStart(image, c) ==
    /\ img = image
    /\ cfg = c
    /\ pc = "start"
    /\ file = <<>>
    /\ fpos = 0
    /\ task = <<>>
    /\ results = <<>>
    /\ finish_order = <<>>
    /\ comp_tiles = <<>>
    /\ indices = <<>>
    /\ cursor = 0
    /\ widx = 0
    /\ wlog = <<>>
    /\ dec = DecIdle
    /\ px = PxIdle

Init ==
    \E ct \in SupportedColors \cup {"La8"}, w \in 1..MaxW, h \in 1..MaxH,
       seed \in 0..MaxSeed, ts \in 1..MaxTile, comp \in AllCompressions,
       rct \in BOOLEAN :
        /\ TilesAcross(w, ts) * TilesAcross(h, ts) <= MaxTiles
        /\ EncStart(MakeImage(ct, w, h, seed, NoDpi, NoDpi, None),
                    MakeConfig(ts, comp, rct))

Next ==
    \/ EncWriteHeader
    \/ EncSeekData
    \/ \E idx \in 0..(total_tiles - 1) : TaskStart(idx)
    \/ \E idx \in 0..(total_tiles - 1) : TaskFinish(idx)
    \/ \E idx \in 0..(total_tiles - 1) : TaskFail(idx)
    \/ EncCollect
    \/ EncWriteTile
    \/ EncWriteIndex
    \/ EncWriteSections
    \/ DecodeOpen
    \/ DecodeReadTile
    \/ DecodeVerifyCrc
    \/ DecodeBlitTile

Spec == Init /\ [][Next]_vars

\* ====== Calls of the pure functions ======
\* px holds one call chain on a byte buffer: the input, the buffer after the
\* first function (mid), the result of the second (out). The encoder and the
\* decoder are not running (pc = "pure").
NoImage == [width |-> 0, height |-> 0, color_type |-> "L8", data |-> <<>>,
            xdpi |-> NoDpi, ydpi |-> NoDpi, icc |-> None]

PureStart(op, kind, input) ==
    /\ img = NoImage
    /\ cfg = MakeConfig(1, CompNone, FALSE)
    /\ pc = "pure"
    /\ file = <<>>
    /\ fpos = 0
    /\ task = <<>>
    /\ results = <<>>
    /\ finish_order = <<>>
    /\ comp_tiles = <<>>
    /\ indices = <<>>
    /\ cursor = 0
    /\ widx = 0
    /\ wlog = <<>>
    /\ dec = DecIdle
    /\ px = [op |-> op, kind |-> kind, input |-> input, mid |-> <<>>,
             out |-> Err(""), stage |-> "input"]

PureUnchanged ==
    UNCHANGED <<img, cfg, pc, file, fpos, task, results, finish_order,
                comp_tiles, indices, cursor, widx, dec, wlog>>

\* ---- the colour transform on one tile buffer ----
\* rct_forward_rgb8 / rct_forward_rgb16 in place
RctForward ==
    /\ pc = "pure"
    /\ px.stage = "input"
    /\ px.op \in {"rct8", "rct16"}
    /\ px' = [px EXCEPT !.mid = IF px.op = "rct8" THEN rct_forward_rgb8(px.input)
                                ELSE rct_forward_rgb16(px.input),
                        !.stage = "forward"]
    /\ PureUnchanged

\* rct_inverse_rgb8 / rct_inverse_rgb16 in place on the transformed buffer
RctInverse ==
    /\ pc = "pure"
    /\ px.stage = "forward"
    /\ px.op \in {"rct8", "rct16"}
    /\ px' = [px EXCEPT !.out = Ok(IF px.op = "rct8" THEN rct_inverse_rgb8(px.mid)
                                   ELSE rct_inverse_rgb16(px.mid)),
                        !.stage = "inverse"]
    /\ PureUnchanged

\* component values of the pixels tried: the ends, the middle of the range
\* and values between
Levels8 == {0, 1, 64, 127, 128, 200, 255}
Levels16 == {0, 1, 255, 256, 32767, 32768, 51200, 65535}

Rgb8Pixels == {<<r, g, b>> : r \in Levels8, g \in Levels8, b \in Levels8}

Le16(v) == <<v % 256, v \div 256>>

Rgb16Pixels ==
    {Le16(r) \o Le16(g) \o Le16(b) : r \in Levels16, g \in Levels16, b \in Levels16}

InitRct ==
    \/ \E p \in Rgb8Pixels : PureStart("rct8", CompNone, p)
    \/ \E p \in Rgb16Pixels : PureStart("rct16", CompNone, p)
    \/ \E p \in Rgb8Pixels, q \in {<<7, 0, 200>>, <<255, 255, 255>>} :
            PureStart("rct8", CompNone, p \o q)

NextRct == RctForward \/ RctInverse

SpecRct == InitRct /\ [][NextRct]_vars

\* ---- the tile codecs on one byte buffer ----
\* compress_tile(kind, data, zstd_level)
CodecCompress ==
    /\ pc = "pure"
    /\ px.op = "codec"
    /\ px.stage = "input"
    /\ LET c == compress_tile(px.kind, px.input, cfg.zstd_level) IN
       px' = [px EXCEPT !.mid = c.val,
                        !.stage = IF c.ok THEN "compressed" ELSE "failed"]
    /\ PureUnchanged

\* decompress_tile_with_size(kind, comp, original_size) on the compressed
\* bytes, with the original length the encoder records in the tile index
CodecDecompress ==
    /\ pc = "pure"
    /\ px.op = "codec"
    /\ px.stage = "compressed"
    /\ px' = [px EXCEPT !.out = decompress_tile_with_size(px.kind, px.mid,
                                                          Len(px.input)),
                        !.stage = "decompressed"]
    /\ PureUnchanged

OwnCodecs == {CompRLE, CompLZ77, CompDelta, CompPredictive}

MaxLen == 4
MaxRun == 260
MaxPeriod == 3

Alphabet == {0, 7, 255}

\* every sequence over Alphabet of length 0..MaxLen
ShortInputs == UNION {[1..n -> Alphabet] : n \in 0..MaxLen}

\* a run of one byte value, with lengths on both sides of the u8 run limit
\* (255) and of 255 + the minimal run, between short literal stretches
RunInputs ==
    {pre \o Repeat(v, n) \o post :
        pre \in {<<>>, <<7>>, <<255, 0>>},
        post \in {<<>>, <<7>>, <<0, 255>>},
        v \in {0, 255},
        n \in (MaxRun - 8)..MaxRun}

\* a pattern of 1..MaxPeriod bytes repeated: matches at distances 1..MaxPeriod
\* and of more than 255 bytes
PeriodicInputs ==
    {[k \in 1..n |-> Palette[(k % period) + 1]] :
        period \in 1..MaxPeriod, n \in ({5, 9, 12} \cup ((MaxRun - 2)..MaxRun))}

\* one hundred zero bytes
HundredZeros == Repeat(0, 100)

CodecInputs == ShortInputs \cup RunInputs \cup PeriodicInputs \cup {HundredZeros}

InitCodec ==
    \E kind \in OwnCodecs, b \in CodecInputs : PureStart("codec", kind, b)

NextCodec == CodecCompress \/ CodecDecompress

SpecCodec == InitCodec /\ [][NextCodec]_vars

\* ====== Rasters with metadata ======
DpiValues == {72, 300}
IccProfiles == {<<>>, <<1, 2, 3>>}
OptDpi == {NoDpi} \cup {Some(v) : v \in DpiValues}
OptIcc == {None} \cup {Some(p) : p \in IccProfiles}

InitMeta ==
    \E ct \in {"L8", "Rgb16"}, w \in 1..MaxTile, comp \in {CompNone, CompZstd},
       xdpi \in OptDpi, ydpi \in OptDpi, icc \in OptIcc :
        EncStart(MakeImage(ct, w, 1, 1, xdpi, ydpi, icc), MakeConfig(1, comp, FALSE))

SpecMeta == InitMeta /\ [][Next]_vars

\* ====== Files changed between encode and decode ======
\* byte positions (0-based) of the written file that may be changed: the
\* magic, version and flags, the color_type and compression bytes, the low
\* byte of each index field and the crc bytes, and every payload byte
HeaderTargets == (0..7) \cup {28, 29}

IndexTargets ==
    {CTI_HEADER_SIZE + TILE_INDEX_ONDISK_SIZE * k + d :
        k \in 0..(total_tiles - 1), d \in {0, 8, 12, 16, 17, 18, 19}}

PayloadTargets == data_offset..(cursor - 1)

TamperValues == {0, 1, 2, 3, 255}

\* one byte of the finished file is overwritten before decode opens it
Tamper ==
    /\ pc = "done"
    /\ dec.pc = "idle"
    /\ \E pos \in HeaderTargets \cup IndexTargets \cup PayloadTargets,
          v \in TamperValues :
        /\ file[pos + 1] # v
        /\ file' = [file EXCEPT ![pos + 1] = v]
    /\ dec' = [dec EXCEPT !.pc = "tampered"]
    /\ UNCHANGED <<img, cfg, pc, fpos, task, results, finish_order, comp_tiles,
                   indices, cursor, widx, px, wlog>>

InitDec ==
    \E ct \in {"L8", "Rgb8"}, w \in 1..MaxTile, seed \in 0..1,
       comp \in {CompNone, CompRLE, CompZstd}, rct \in BOOLEAN :
        EncStart(MakeImage(ct, w, 1, seed, NoDpi, NoDpi, None),
                 MakeConfig(1, comp, rct))

NextDec == Next \/ Tamper

SpecDec == InitDec /\ [][NextDec]_vars

\* ====== Properties ======
\* the file as a function of the raster and the configuration alone: header,
\* index block, payloads and section table, every tile at its linear index
RECURSIVE CanonicalTiles(_)
CanonicalTiles(n) ==
    IF n = 0 THEN <<>> ELSE Append(CanonicalTiles(n - 1), CompressTask(n - 1))

RECURSIVE CanonicalIndices(_, _)
CanonicalIndices(tiles, off) ==
    IF Len(tiles) = 0 THEN <<>>
    ELSE <<IndexRecord(Head(tiles), off)>>
         \o CanonicalIndices(Tail(tiles), off + Len(Head(tiles).comp))

RECURSIVE CanonicalPayloads(_)
CanonicalPayloads(tiles) ==
    IF Len(tiles) = 0 THEN <<>>
    ELSE Head(tiles).comp \o CanonicalPayloads(Tail(tiles))

CanonicalFile ==
    LET tiles == CanonicalTiles(total_tiles)
        body == write_header(EncHeader)
                    \o WriteIndices(CanonicalIndices(tiles, data_offset))
                    \o CanonicalPayloads(tiles)
    IN write_sections(body, Len(body), BuildSections(img))[1]

\* the bytes of the file that index record k (0-based) points at
FilePayload(k) ==
    LET t == ReadIndexAt(file, k)
    IN Slice(file, t.offset, t.offset + t.compressed_size)

ForcedToZstd ==
    /\ img.color_type \in {"L16", "Rgb16"}
    /\ cfg.compression \in {CompNone, CompRLE, CompLZ77, CompDelta, CompPredictive}

\* C1: for every supported raster, tile size, configured compression and
\* color_transform setting, decode of the file written by encode_to_cti
\* succeeds and returns the bytes of the raster.
C1_DecodeReturnsRaster ==
    (pc = "done" /\ dec.pc = "returned") =>
        (dec.res = "ok" /\ dec.out = img.data)

\* C2: for an L16 or RGB16 raster with a configured compression out of None,
\* RLE, LZ77, Delta, Predictive, every tile payload is a Zstd frame of the
\* tile and the compression byte of the written header is 10.
C2_HeaderNamesZstd ==
    (pc = "done" /\ ForcedToZstd) =>
        /\ \A i \in 0..(total_tiles - 1) :
              FilePayload(i) = ZstdCompress(TileBytes(i), cfg.zstd_level)
        /\ read_header(file).val.compression = CompZstd

\* C3: the bytes of the written file are the same for every order in which
\* the per-tile tasks start and finish: the file is the canonical file, with
\* payload i the i-th payload and its record the i-th record of the index.
C3_FileIndependentOfSchedule ==
    pc = "done" => file = CanonicalFile

\* three tasks finished out of index order and produced different payloads
C3_OutOfOrderFinish ==
    /\ pc = "done"
    /\ finish_order = <<2, 0, 1>>
    /\ comp_tiles[1] # comp_tiles[2]
    /\ comp_tiles[2] # comp_tiles[3]

\* C4: the written index has N = tiles_x * tiles_y records, the first
\* payload starts at 64 + 20 * N, and each payload ends where the next starts.
C4_IndexContiguous ==
    pc = "done" =>
        LET ix == read_indices(file, total_tiles)
        IN /\ Len(indices) = total_tiles
           /\ ix.ok
           /\ ix.val = indices
           /\ total_tiles > 0 => ix.val[1].offset = 64 + 20 * total_tiles
           /\ \A i \in 1..(total_tiles - 1) :
                 ix.val[i].offset + ix.val[i].compressed_size = ix.val[i + 1].offset

\* a finished file of three tiles whose payloads have different sizes
C4_ThreeTiles ==
    /\ pc = "done"
    /\ total_tiles = 3
    /\ ReadIndexAt(file, 0).compressed_size # ReadIndexAt(file, 1).compressed_size
    /\ ReadIndexAt(file, 1).offset > data_offset

\* C5: the inverse colour transform applied to the forward transform of a
\* buffer of RGB8 or RGB16 pixels gives the buffer back, for every pixel.
C5_RctRoundTrip ==
    (pc = "pure" /\ px.op \in {"rct8", "rct16"} /\ px.stage = "inverse") =>
        px.out = Ok(px.input)

\* C6: for each of RLE, LZ77, Delta and Predictive, decompress_tile_with_size
\* applied to the compress_tile of a byte sequence returns that sequence.
C6_CodecRoundTrip ==
    (pc = "pure" /\ px.op = "codec") =>
        /\ px.stage # "failed"
        /\ px.stage = "decompressed" => px.out = Ok(px.input)

\* a decompressed sequence with an 0xFF literal and a run of more than 255
C6_LongRunWithFF ==
    /\ pc = "pure"
    /\ px.op = "codec"
    /\ px.stage = "decompressed"
    /\ px.kind = CompRLE
    /\ Len(px.input) > 258
    /\ px.input[1] = 255
    /\ px.input[2] = 0
    /\ px.mid # px.input

\* the header of the file as decode reads it
FileHeader == read_header(file).val

\* C7: decode fails whenever the magic of the header is not "CTI1" or its
\* version is not 1.
C7_MagicAndVersionChecked ==
    (pc = "done" /\ dec.pc = "returned"
        /\ (FileHeader.magic # CTI_MAGIC \/ FileHeader.version # 1)) =>
        dec.res = "err"

\* C8: bit 0 of the written flags is set only for RGB8 or RGB16, and exactly
\* when the forward transform was applied to the tiles.
C8_FlagFollowsTransform ==
    pc = "done" =>
        /\ (FileHeader.flags % 2 = 1) => img.color_type \in {"Rgb8", "Rgb16"}
        /\ (FileHeader.flags % 2 = 1) <=> use_rct

\* the CRC the index holds for the tile decode is working on differs from
\* the CRC of the bytes just decompressed
CrcMismatch == crc32(dec.tile_bytes) # dec.indices[dec.i + 1].crc32

\* C9: decode takes the tiles in ascending linear index; when the bytes it
\* decompressed for tile i fail the CRC check it returns the error naming
\* tile i and leaves the output raster as it was; the output raster changes
\* only in the blit of a tile that passed its check, and a tile waits for
\* its blit only after passing it.
C9_CrcCheckedBeforeBlit ==
    [][/\ (dec.pc = "verify" /\ CrcMismatch) =>
              /\ dec'.pc = "returned"
              /\ dec'.res = "err"
              /\ dec'.err = "CRC mismatch at tile"
              /\ dec'.err_tile = dec.i
              /\ dec'.out = dec.out
       /\ (dec.pc \in {"read", "verify", "blit", "returned"} /\ dec'.out # dec.out) =>
              (dec.pc = "blit" /\ ~CrcMismatch)
       /\ dec'.pc = "blit" => (dec.pc = "verify" /\ ~CrcMismatch /\ dec'.i = dec.i)
       /\ dec.pc \in {"read", "verify"} => dec'.i = dec.i
       /\ (dec.pc = "blit" /\ dec'.res # "panic") => dec'.i = dec.i + 1
       /\ dec'.pc = "read" =>
              (dec.pc = "blit" \/ (dec.pc \in {"idle", "tampered"} /\ dec'.i = 0))
      ]_vars

\* decode stopped at the CRC check of tile 1 after tile 0 reached the raster
C9_SecondTileRejected ==
    /\ dec.pc = "returned"
    /\ dec.res = "err"
    /\ dec.err = "CRC mismatch at tile"
    /\ dec.err_tile = 1
    /\ dec.i = 1
    /\ dec.out # Repeat(0, Len(dec.out))

\* the section table as a reader finds it after the last tile payload
PayloadEnd ==
    LET t == ReadIndexAt(file, total_tiles - 1)
    IN t.offset + t.compressed_size

SectionCount == FromLe(Slice(file, PayloadEnd, PayloadEnd + 4))

SectionRec(k) ==
    LET base == PayloadEnd + 4 + SECTION_REC_SIZE * k
    IN [ty |-> FromLe(Slice(file, base, base + 4)),
        offset |-> FromLe(Slice(file, base + 4, base + 12)),
        size |-> FromLe(Slice(file, base + 12, base + 20))]

SectionBytes(k) ==
    Slice(file, SectionRec(k).offset, SectionRec(k).offset + SectionRec(k).size)

HasRes == img.xdpi.some /\ img.ydpi.some

\* C10: with xdpi, ydpi and an ICC profile the table after the last payload
\* has count 2, RES first and ICC second, each record with the absolute
\* position and the length of its payload, the payloads packed right after
\* the 4 + 20 * count bytes of count and records; a RES record exists only
\* when both xdpi and ydpi are present; with no section the table is one
\* u32 0.
C10_SectionTable ==
    pc = "done" =>
        /\ (HasRes /\ img.icc.some) =>
              /\ SectionCount = 2
              /\ SectionRec(0).ty = SEC_TYPE_RES
              /\ SectionRec(1).ty = SEC_TYPE_ICC
              /\ SectionRec(0).offset = PayloadEnd + 4 + 20 * 2
              /\ SectionRec(0).size = 8
              /\ SectionBytes(0) = F32LeBytes(img.xdpi.v) \o F32LeBytes(img.ydpi.v)
              /\ SectionRec(1).offset = SectionRec(0).offset + SectionRec(0).size
              /\ SectionRec(1).size = Len(img.icc.v)
              /\ SectionBytes(1) = img.icc.v
              /\ Len(file) = SectionRec(1).offset + SectionRec(1).size
        /\ (\E k \in 0..(SectionCount - 1) : SectionRec(k).ty = SEC_TYPE_RES) => HasRes
        /\ (~HasRes /\ ~img.icc.some) =>
              /\ SectionCount = 0
              /\ Len(file) = PayloadEnd + 4

\* a finished file whose raster carries two different dpi values and a
\* profile of three bytes
C10_BothSections ==
    /\ pc = "done"
    /\ HasRes
    /\ img.xdpi.v # img.ydpi.v
    /\ img.icc.some
    /\ Len(img.icc.v) = 3
    /\ SectionCount = 2

\* ====== Decoders on arbitrary streams ======
\* rle_decompress (kind RLE) or lz77_decompress (kind LZ77) on a stream that
\* need not come from the encoders
StreamDecode ==
    /\ pc = "pure"
    /\ px.op = "stream"
    /\ px.stage = "input"
    /\ px' = [px EXCEPT !.out = IF px.kind = CompRLE THEN rle_decompress(px.input)
                                ELSE lz77_decompress(px.input),
                        !.stage = "decoded"]
    /\ PureUnchanged

MaxStream == 5

\* the escape byte, the three tags, an unassigned tag, which also serve as
\* counts, distances, lengths and literals
StreamAlphabet == {0, 1, 2, 3, 255}

ShortStreams == UNION {[1..n -> StreamAlphabet] : n \in 0..MaxStream}

\* streams that start with three or four literals or with a run of three,
\* so that back-references of length 3 have bytes to copy
StreamInputs ==
    ShortStreams \cup {<<3, 1, 2>> \o t : t \in ShortStreams}
                 \cup {<<3, 3, 3, 3>> \o t : t \in ShortStreams}
                 \cup {<<255, 1, 3, 0>> \o t : t \in ShortStreams}

InitStream ==
    \E kind \in {CompRLE, CompLZ77}, b \in StreamInputs : PureStart("stream", kind, b)

NextStream == StreamDecode

SpecStream == InitStream /\ [][NextStream]_vars

\* the first fault of a stream read token by token from 0-based position i
\* with n bytes decoded so far: "none" for a stream without fault
RECURSIVE StreamFault(_, _, _, _)
StreamFault(data, i, n, lz) ==
    IF i >= Len(data) THEN "none"
    ELSE IF data[i + 1] # 255 THEN StreamFault(data, i + 1, n + 1, lz)
    ELSE IF i + 1 >= Len(data) THEN "ends after 0xFF"
    ELSE LET tag == data[i + 2] IN
         IF tag = 0 THEN StreamFault(data, i + 2, n + 1, lz)
         ELSE IF tag = 1
         THEN IF i + 3 >= Len(data) THEN "ends inside run"
              ELSE StreamFault(data, i + 4, n + data[i + 3], lz)
         ELSE IF tag = 2 /\ lz
         THEN IF i + 4 >= Len(data) THEN "ends inside back-reference"
              ELSE LET dist == 256 * data[i + 3] + data[i + 4]
                       len == data[i + 5]
                   IN IF dist = 0 THEN "dist zero"
                      ELSE IF len < 3 THEN "len below 3"
                      ELSE IF dist > n THEN "dist beyond output"
                      ELSE StreamFault(data, i + 5, n + len, lz)
         ELSE IF tag = 2 THEN "LZ77 tag in RLE"
         ELSE "unknown tag"

PxFault == StreamFault(px.input, 0, 0, px.kind = CompLZ77)

\* C11: rle_decompress and lz77_decompress return an error for every stream
\* that ends inside an escape sequence, run tuple or back-reference tuple,
\* has an unknown tag after 0xFF, or (LZ77) has a back-reference with dist 0,
\* len below 3 or dist beyond the bytes decoded so far; a stream without
\* such a fault is decoded.
C11_FaultyStreamRejected ==
    (pc = "pure" /\ px.op = "stream" /\ px.stage = "decoded") =>
        (PxFault # "none" <=> ~px.out.ok)

\* lz77_decompress has refused a back-reference that reaches before the
\* start of the output, after decoding the literals in front of it
C11_BackrefBeyondOutput ==
    /\ pc = "pure"
    /\ px.op = "stream"
    /\ px.stage = "decoded"
    /\ px.kind = CompLZ77
    /\ PxFault = "dist beyond output"
    /\ px.input[1] = 3
    /\ ~px.out.ok

\* C12: rle_decompress refuses a stream in which it meets 0xFF followed by
\* tag 0x02; lz77_decompress decodes streams with run tuples (tag 0x01) and
\* back-references (tag 0x02); every stream rle_decompress decodes is decoded
\* to the same bytes by lz77_decompress.
C12_RleStreamsDecodeUnderLz77 ==
    (pc = "pure" /\ px.op = "stream" /\ px.stage = "decoded") =>
        /\ (px.kind = CompRLE /\ PxFault = "LZ77 tag in RLE") => ~px.out.ok
        /\ (px.kind = CompRLE /\ px.out.ok) => lz77_decompress(px.input) = px.out
        /\ (px.kind = CompLZ77 /\ PxFault = "none") =>
              /\ px.out.ok
              /\ rle_decompress(px.input).ok => rle_decompress(px.input) = px.out

\* lz77_decompress has decoded a stream with a run tuple followed by a
\* back-reference, which rle_decompress refuses
C12_RunThenBackref ==
    /\ pc = "pure"
    /\ px.op = "stream"
    /\ px.stage = "decoded"
    /\ px.kind = CompLZ77
    /\ px.input = <<255, 1, 3, 0, 255, 2, 0, 3, 3>>
    /\ px.out = Ok(<<0, 0, 0, 0, 0, 0>>)
    /\ ~rle_decompress(px.input).ok

\* first and last position (1-based) of the maximal run of equal bytes that
\* position p lies in
RunFirst(data, p) ==
    CHOOSE k \in 1..p :
        /\ \A m \in k..p : data[m] = data[p]
        /\ k = 1 \/ data[k - 1] # data[p]

RunLast(data, p) ==
    CHOOSE k \in p..Len(data) :
        /\ \A m \in p..k : data[m] = data[p]
        /\ k = Len(data) \/ data[k + 1] # data[p]

\* what the greedy policy writes at position p: nothing unless a stretch of
\* at most 255 bytes of the run starts there; a stretch of 4 or more becomes
\* FF 01 count value, a shorter one literals with every 0xFF as FF 00
GreedyToken(data, p) ==
    LET n == Min(255, RunLast(data, p) - p + 1)
        v == data[p]
    IN IF (p - RunFirst(data, p)) % 255 # 0 THEN <<>>
       ELSE IF n >= 4 THEN <<255, 1, n, v>>
       ELSE IF v = 255 THEN SubSeq(<<255, 0, 255, 0, 255, 0>>, 1, 2 * n)
       ELSE SubSeq(<<v, v, v>>, 1, n)

\* the tokens of positions lo..hi, one after the other
RECURSIVE GreedyTokens(_, _, _)
GreedyTokens(data, lo, hi) ==
    IF lo > hi THEN <<>>
    ELSE IF lo = hi THEN GreedyToken(data, lo)
    ELSE GreedyTokens(data, lo, (lo + hi) \div 2)
         \o GreedyTokens(data, ((lo + hi) \div 2) + 1, hi)

GreedyRle(data) == GreedyTokens(data, 1, Len(data))

\* C13: the output of rle_compress is the stream of the greedy policy; 100
\* zero bytes give FF 01 64 00, three zero bytes give 00 00 00, [FF] gives
\* FF 00 and four FF bytes give FF 01 04 FF.
C13_RleGreedy ==
    (pc = "pure" /\ px.op = "codec" /\ px.kind = CompRLE
        /\ px.stage \in {"compressed", "decompressed"}) =>
        /\ px.mid = GreedyRle(px.input)
        /\ px.input = HundredZeros => px.mid = <<255, 1, 100, 0>>
        /\ px.input = <<0, 0, 0>> => px.mid = <<0, 0, 0>>
        /\ px.input = <<255>> => px.mid = <<255, 0>>
        /\ px.input = <<255, 255, 255, 255>> => px.mid = <<255, 1, 4, 255>>

\* rle_compress has turned a literal, a run of more than 255 zero bytes and
\* two literals into four tokens
C13_LongRunSplit ==
    /\ pc = "pure"
    /\ px.op = "codec"
    /\ px.kind = CompRLE
    /\ px.stage = "compressed"
    /\ Len(px.input) = 263
    /\ px.input[1] = 7
    /\ px.input[262] = 0
    /\ px.input[263] = 255
    /\ px.mid = <<7, 255, 1, 255, 0, 255, 1, 6, 0, 255, 0>>

\* the number of bytes the window of tile i takes under header h
WindowBytes(h, bpp, i) ==
    LET start_x == (i % h.tiles_x) * h.tile_size
        start_y == (i \div h.tiles_x) * h.tile_size
        tile_w == Min(start_x + h.tile_size, h.width) - start_x
        tile_h == Min(start_y + h.tile_size, h.height) - start_y
    IN tile_w * tile_h * bpp

\* C14: blit_tile checks its buffers against the window: when decode hands
\* it a tile whose length is not tile_w * tile_h * bpp of the window, the
\* result is an error, neither an abort nor a raster.
C14_BlitRejectsWrongLength ==
    (pc = "done" /\ dec.pc = "returned" /\ dec.hdr # <<>>
        /\ dec.i < Len(dec.indices)
        /\ dec.indices[dec.i + 1].crc32 = crc32(dec.tile_bytes)
        /\ Len(dec.tile_bytes) # WindowBytes(dec.hdr, dec.bpp, dec.i)) =>
        dec.res = "err"

\* C15: nothing but the header is in the file until every per-tile task has
\* returned; the file and its position change only on the calling thread,
\* before the parallel phase and after it, and a task step leaves the file,
\* the position and the raster as they were.
C15_WritesOutsideParallelPhase ==
    /\ [](/\ pc \in {"seek", "parallel"} => file = write_header(EncHeader)
          /\ Len(file) > CTI_HEADER_SIZE =>
                /\ pc \in {"write", "sections", "done"}
                /\ Len(finish_order) = total_tiles
                /\ \A idx \in 0..(total_tiles - 1) :
                      \E k \in 1..total_tiles : finish_order[k] = idx)
    /\ [][pc = "parallel" => (file' = file /\ fpos' = fpos /\ img' = img)]_vars

C15_FirstPayloadAfterLastTask ==
    /\ pc = "write" /\ widx = 1 /\ total_tiles = 2
    /\ finish_order = <<1, 0>>
    /\ Len(file) > data_offset

\* ---- the writes of one encode ----
\* how many writes of the log cover exactly the bytes [off, off + len)
WritesOf(off, len) == Cardinality({k \in DOMAIN wlog : wlog[k] = WriteRec(off, len)})

\* write j of the log touches a byte of write k
Overlap(j, k) ==
    /\ wlog[j].len > 0 /\ wlog[k].len > 0
    /\ wlog[j].off < wlog[k].off + wlog[k].len
    /\ wlog[k].off < wlog[j].off + wlog[j].len

\* the position in the log of the write of payload idx
PayloadWrite(idx) == 1 + idx + 1

\* every payload went to the file once, at the offset its index record
\* names, and no later write touches its bytes
PayloadsWrittenOnce ==
    \A idx \in 0..(total_tiles - 1) :
        /\ wlog[PayloadWrite(idx)] = WriteRec(indices[idx + 1].offset,
                                              indices[idx + 1].compressed_size)
        /\ \A j \in DOMAIN wlog : j # PayloadWrite(idx) => ~Overlap(j, PayloadWrite(idx))

\* the section table went to the file once, behind the last payload
SectionsWrittenOnce ==
    /\ WritesOf(cursor, 4) = 1
    /\ \A j \in DOMAIN wlog : wlog[j].off >= cursor =>
          \A k \in DOMAIN wlog : k # j => ~Overlap(j, k)

\* C16 (as stated): after an encode the header and every record of the tile
\* index block have been written twice, the section table once, and no
\* payload byte has been overwritten.
C16_HeaderAndIndexWrittenTwice ==
    pc = "done" =>
        /\ WritesOf(0, CTI_HEADER_SIZE) = 2
        /\ \A k \in 0..(total_tiles - 1) :
              WritesOf(index_offset + k * TILE_INDEX_ONDISK_SIZE,
                       TILE_INDEX_ONDISK_SIZE) = 2
        /\ SectionsWrittenOnce
        /\ PayloadsWrittenOnce

\* C16 (amended): after an encode the header and every record of the tile
\* index block have been written once (the index area is skipped by a seek
\* and filled in after the payloads), the section table once, and no payload
\* byte has been overwritten by a later write; no write touches the bytes of
\* another.
C16_EveryRegionWrittenOnce ==
    pc = "done" =>
        /\ WritesOf(0, CTI_HEADER_SIZE) = 1
        /\ \A k \in 0..(total_tiles - 1) :
              WritesOf(index_offset + k * TILE_INDEX_ONDISK_SIZE,
                       TILE_INDEX_ONDISK_SIZE) = 1
        /\ SectionsWrittenOnce
        /\ PayloadsWrittenOnce
        /\ \A j, k \in DOMAIN wlog : j # k => ~Overlap(j, k)

C16_PayloadsThenIndexThenSections ==
    /\ pc = "done" /\ dec.pc = "idle" /\ total_tiles = 2
    /\ img.icc.some /\ img.xdpi.some /\ img.ydpi.some
    /\ Len(wlog) = 1 + 2 + 2 + (1 + 2 + 2)
    /\ wlog[4].off = index_offset /\ wlog[3].off > wlog[4].off
    /\ wlog[10].off < wlog[7].off

\* C20: once a per-tile task has returned Err, encode_to_cti ends with an
\* error and nothing else: the failed task is not run again, no payload,
\* index record or section table is written, and the file holds the 64
\* header bytes alone.
C20_FailedTaskLeavesHeaderOnly ==
    /\ []((pc \in {"parallel", "failed"} /\ \E k \in DOMAIN task : task[k] = "failed") =>
            /\ file = write_header(EncHeader)
            /\ wlog = <<WriteRec(0, CTI_HEADER_SIZE)>>
            /\ indices = <<>>)
    /\ [][(pc = "parallel" /\ \E k \in DOMAIN task : task[k] = "failed") =>
            /\ pc' \in {"parallel", "failed"}
            /\ \A k \in DOMAIN task : task[k] = "failed" => task'[k] = "failed"]_vars
    /\ [][pc = "failed" => (pc' = "failed" /\ file' = file)]_vars

C20_SecondTaskFailed ==
    /\ pc = "failed" /\ total_tiles = 2
    /\ task = <<"done", "failed">>
    /\ Len(file) = CTI_HEADER_SIZE

\* ====== u32 arithmetic of the output allocation and the row offsets ======
\* Numbers are little-endian base-256 digit sequences, so that products
\* beyond 2^32 are represented exactly.
Dig(a, i) == IF i < Len(a) THEN a[i + 1] ELSE 0

RECURSIVE ConvSum(_, _, _, _)
ConvSum(a, b, p, i) ==
    IF i > p THEN 0 ELSE Dig(a, i) * Dig(b, p - i) + ConvSum(a, b, p, i + 1)

RECURSIVE MulDigits(_, _, _, _, _)
MulDigits(a, b, p, carry, k) ==
    IF p = k THEN <<>>
    ELSE LET s == carry + ConvSum(a, b, p, 0)
         IN <<s % 256>> \o MulDigits(a, b, p + 1, s \div 256, k)

RECURSIVE AddDigits(_, _, _, _, _)
AddDigits(a, b, p, carry, k) ==
    IF p = k THEN <<>>
    ELSE LET s == carry + Dig(a, p) + Dig(b, p)
         IN <<s % 256>> \o AddDigits(a, b, p + 1, s \div 256, k)

\* the exact product and sum, k digits wide
WideMul(a, b, k) == MulDigits(a, b, 0, 0, k)
WideAdd(a, b, k) == AddDigits(a, b, 0, 0, k)

U32(n) == LeBytes(n, 4)

\* the outcome of a u32 operation whose exact result is wide: the low 32
\* bits, unless the build checks overflow and the result does not fit
U32Result(wide, checked) ==
    IF (\A k \in 5..Len(wide) : wide[k] = 0) \/ ~checked
    THEN [kind |-> "ok", val |-> SubSeq(wide, 1, 4)]
    ELSE [kind |-> "panic", val |-> <<>>]

\* `a * b` on u32: wraps without overflow checks, panics with them
u32_mul(a, b, checked) == U32Result(WideMul(a, b, 8), checked)

\* `a + b` on u32
u32_add(a, b, checked) == U32Result(WideAdd(a, b, 5), checked)

\* (hdr.width * hdr.height * bpp) as usize
AllocLen(width, height, bpp, checked) ==
    LET wh == u32_mul(U32(width), U32(height), checked)
    IN IF wh.kind = "panic" THEN wh ELSE u32_mul(wh.val, U32(bpp), checked)

\* (((start_y + row) * w + start_x) * bpp) as usize, for pixel row y, column x
DstOff(y, w, x, bpp, checked) ==
    LET yw == u32_mul(U32(y), U32(w), checked)
        ywx == IF yw.kind = "panic" THEN yw ELSE u32_add(yw.val, U32(x), checked)
    IN IF ywx.kind = "panic" THEN ywx ELSE u32_mul(ywx.val, U32(bpp), checked)

\* decode allocates the output buffer; px.kind tells whether the build
\* checks integer overflow, px.input is <<width, height, bpp>>
AllocOutput ==
    /\ pc = "pure" /\ px.op = "alloc" /\ px.stage = "input"
    /\ LET r == AllocLen(px.input[1], px.input[2], px.input[3], px.kind) IN
        px' = [px EXCEPT !.out = r,
                         !.stage = IF r.kind = "ok" THEN "allocated" ELSE "panicked"]
    /\ PureUnchanged

\* blit_tile computes the offset of the last row of the raster, whose first
\* column belongs to the last tile row (start_x = 0)
BlitRowOffset ==
    /\ pc = "pure" /\ px.op = "alloc" /\ px.stage = "allocated"
    /\ LET r == DstOff(px.input[2] - 1, px.input[1], 0, px.input[3], px.kind) IN
        px' = [px EXCEPT !.mid = r,
                         !.stage = IF r.kind = "ok" THEN "offset" ELSE "panicked"]
    /\ PureUnchanged

DimValues == {1, 2, 3, 200, 256, 300, 4096, 40000}

InitAlloc ==
    \E w \in DimValues, h \in DimValues, bpp \in {1, 2, 3, 4, 6}, checked \in BOOLEAN :
        PureStart("alloc", checked, <<w, h, bpp>>)

NextAlloc == AllocOutput \/ BlitRowOffset

SpecAlloc == InitAlloc /\ [][NextAlloc]_vars

\* the exact values, nine digits wide
ExactLen(width, height, bpp) == WideMul(WideMul(U32(width), U32(height), 9), U32(bpp), 9)
ExactOff(y, w, x, bpp) ==
    WideMul(WideAdd(WideMul(U32(y), U32(w), 9), U32(x), 9), U32(bpp), 9)
Widen(v) == v \o [k \in 1..(9 - Len(v)) |-> 0]

\* C17: decode allocates exactly width * height * bpp bytes and computes the
\* offset (y * width + x) * bpp of a row exactly, for every width and height
\* of the header; the 32-bit operations neither wrap nor abort.
C17_AllocationExact ==
    (pc = "pure" /\ px.op = "alloc" /\ px.stage # "input") =>
        /\ px.out.kind = "ok"
        /\ Widen(px.out.val) = ExactLen(px.input[1], px.input[2], px.input[3])
        /\ px.stage # "allocated" =>
              /\ px.mid.kind = "ok"
              /\ Widen(px.mid.val) =
                    ExactOff(px.input[2] - 1, px.input[1], 0, px.input[3])

\* ====== lz77_compress on inputs that reach the window limit ======
\* three bytes, zeros, and the three bytes again d positions after the first
FarRepeat(d) == <<1, 2, 3>> \o Repeat(0, d - 3) \o <<1, 2, 3>>

\* the repeat at the far end of the window, and one byte beyond it
WindowInputs == {FarRepeat(WINDOW), FarRepeat(WINDOW + 1)}

InitLz == \E b \in CodecInputs \cup WindowInputs : PureStart("codec", CompLZ77, b)

SpecLz == InitLz /\ [][NextCodec]_vars

\* the back-references of an lz77_compress stream from byte q on, each with
\* the input position i it stands for
RECURSIVE Lz77Backrefs(_, _, _)
Lz77Backrefs(stream, q, i) ==
    IF q >= Len(stream) THEN <<>>
    ELSE IF stream[q + 1] # 255 THEN Lz77Backrefs(stream, q + 1, i + 1)
    ELSE IF stream[q + 2] = TAG_ESCAPE_FF THEN Lz77Backrefs(stream, q + 2, i + 1)
    ELSE <<[i |-> i, dist |-> stream[q + 3] * 256 + stream[q + 4], len |-> stream[q + 5]]>>
         \o Lz77Backrefs(stream, q + 5, i + stream[q + 5])

\* the l bytes at j equal the l bytes at i and end before i (0-based)
HasMatch(data, i, j, l) ==
    /\ l <= 255 /\ j + l <= i /\ i + l <= Len(data)
    /\ \A m \in 0..(l - 1) : data[j + m + 1] = data[i + m + 1]

\* C18: every back-reference of an lz77_compress stream has 1 <= dist <= 4096,
\* 3 <= len <= 255 and len <= dist, and names the first (lowest) window
\* position with a match of the greatest length; the stream passes the checks
\* of lz77_decompress, which also accepts a reference with dist < len.
C18_BackrefsWithinWindow ==
    /\ (pc = "pure" /\ px.op = "codec" /\ px.kind = CompLZ77
            /\ px.stage \in {"compressed", "decompressed"}) =>
        LET refs == Lz77Backrefs(px.mid, 0, 0) IN
        /\ \A k \in DOMAIN refs :
            LET r == refs[k]
                start == IF r.i > 4096 THEN r.i - 4096 ELSE 0
            IN /\ 1 <= r.dist /\ r.dist <= 4096
               /\ 3 <= r.len /\ r.len <= 255
               /\ r.len <= r.dist
               /\ HasMatch(px.input, r.i, r.i - r.dist, r.len)
               /\ \A j \in start..(r.i - 1) : ~HasMatch(px.input, r.i, j, r.len + 1)
               /\ \A j \in start..(r.i - r.dist - 1) : ~HasMatch(px.input, r.i, j, r.len)
        /\ lz77_decompress(px.mid).ok
    /\ lz77_decompress(<<3, 255, 2, 0, 1, 3>>) = Ok(<<3, 3, 3, 3>>)

C18_MatchAtWindowEdge ==
    /\ pc = "pure" /\ px.op = "codec" /\ px.kind = CompLZ77
    /\ px.stage = "decompressed"
    /\ px.input = FarRepeat(4096)
    /\ SubSeq(px.mid, Len(px.mid) - 4, Len(px.mid)) = <<255, 2, 16, 0, 3>>
    /\ px.out = Ok(px.input)

\* ====== The tile grid: extract_tile and blit_tile over a whole raster ======
\* the window of tile (tx, ty): start_x, end_x, start_y, end_y
TileRect(w, h, ts, tx, ty) ==
    [x0 |-> tx * ts, x1 |-> Min(tx * ts + ts, w),
     y0 |-> ty * ts, y1 |-> Min(ty * ts + ts, h)]

\* the 0-based offsets of the output the row loop of blit_tile writes
BlitWrites(w, h, ts, bpp, tx, ty) ==
    LET r == TileRect(w, h, ts, tx, ty)
        len == (r.x1 - r.x0) * bpp
    IN {((r.y0 + row) * w + r.x0) * bpp + c :
            row \in 0..(r.y1 - r.y0 - 1), c \in 0..(len - 1)}

\* px.kind is the tile index, px.mid the extracted tile, px.out the output
\* buffer and px.input the number of times each output byte was written
GridStart(image, ts) ==
    /\ img = image
    /\ cfg = MakeConfig(ts, CompNone, FALSE)
    /\ pc = "pure"
    /\ file = <<>>
    /\ fpos = 0
    /\ task = <<>>
    /\ results = <<>>
    /\ finish_order = <<>>
    /\ comp_tiles = <<>>
    /\ indices = <<>>
    /\ cursor = 0
    /\ widx = 0
    /\ wlog = <<>>
    /\ dec = DecIdle
    /\ px = [op |-> "grid", kind |-> 0, input |-> Repeat(0, Len(image.data)),
             mid |-> <<>>, out |-> Ok(Repeat(0, Len(image.data))),
             stage |-> "extract"]

\* extract_tile(img, tx, ty, tile_size) of the next tile
GridExtract ==
    /\ pc = "pure" /\ px.op = "grid" /\ px.stage = "extract"
    /\ px.kind < total_tiles
    /\ LET r == extract_tile(img, px.kind % tiles_x, px.kind \div tiles_x,
                             cfg.tile_size) IN
        px' = [px EXCEPT !.mid = r.val,
                         !.stage = IF r.kind = "ok" THEN "blit" ELSE "stopped"]
    /\ PureUnchanged

\* blit_tile of that tile into the output buffer
GridBlit ==
    /\ pc = "pure" /\ px.op = "grid" /\ px.stage = "blit"
    /\ LET bpp == bytes_per_pixel(img.color_type).val
           tx == px.kind % tiles_x
           ty == px.kind \div tiles_x
           r == blit_tile(px.out.val, px.mid, img.width, img.height,
                          cfg.tile_size, bpp, tx, ty)
           written == BlitWrites(img.width, img.height, cfg.tile_size, bpp, tx, ty)
       IN px' = [px EXCEPT
                    !.out = Ok(r.val),
                    !.input = [k \in DOMAIN px.input |->
                                 IF (k - 1) \in written THEN px.input[k] + 1
                                 ELSE px.input[k]],
                    !.kind = px.kind + 1,
                    !.stage = IF r.kind # "ok" THEN "stopped"
                              ELSE IF px.kind + 1 = total_tiles THEN "done"
                              ELSE "extract"]
    /\ PureUnchanged

MaxGridW == 4
MaxGridH == 3
MaxGridT == 3

InitGrid ==
    \E ct \in {"L8", "Rgb8"}, w \in 1..MaxGridW, h \in 1..MaxGridH,
       ts \in 1..MaxGridT, seed \in 1..2 :
        GridStart(MakeImage(ct, w, h, seed, NoDpi, NoDpi, None), ts)

NextGrid == GridExtract \/ GridBlit

SpecGrid == InitGrid /\ [][NextGrid]_vars

\* the tiles whose window holds pixel (x, y)
TilesHolding(x, y) ==
    {i \in 0..(total_tiles - 1) :
        LET r == TileRect(img.width, img.height, cfg.tile_size,
                          i % tiles_x, i \div tiles_x)
        IN r.x0 <= x /\ x < r.x1 /\ r.y0 <= y /\ y < r.y1}

\* C19: the grid has ceil(W / T) by ceil(H / T) tiles; every pixel of the
\* raster lies in the window of exactly one tile; an extracted tile has
\* tile_w * tile_h * bpp bytes; blitting every tile into a zero-filled buffer
\* writes every byte exactly once and gives back the raster.
C19_TilesPartitionRaster ==
    (pc = "pure" /\ px.op = "grid") =>
        LET bpp == bytes_per_pixel(img.color_type).val
            r == TileRect(img.width, img.height, cfg.tile_size,
                          px.kind % tiles_x, px.kind \div tiles_x)
        IN /\ (tiles_x - 1) * cfg.tile_size < img.width
           /\ img.width <= tiles_x * cfg.tile_size
           /\ (tiles_y - 1) * cfg.tile_size < img.height
           /\ img.height <= tiles_y * cfg.tile_size
           /\ \A x \in 0..(img.width - 1), y \in 0..(img.height - 1) :
                 Cardinality(TilesHolding(x, y)) = 1
           /\ px.stage # "stopped"
           /\ px.stage = "blit" =>
                 Len(px.mid) = (r.x1 - r.x0) * (r.y1 - r.y0) * bpp
           /\ \A k \in DOMAIN px.input : px.input[k] <= 1
           /\ px.stage = "done" =>
                 /\ \A k \in DOMAIN px.input : px.input[k] = 1
                 /\ px.out.val = img.data

C19_PartialEdgeTile ==
    /\ pc = "pure" /\ px.op = "grid" /\ px.stage = "done"
    /\ img.width = 4 /\ img.height = 2 /\ cfg.tile_size = 3
    /\ img.color_type = "Rgb8"
    /\ px.kind = 2
    /\ Len(px.mid) = 1 * 2 * 3
    /\ px.out.val = img.data

====
